---------------------------- MODULE Spec2Model ----------------------------
(***************************************************************************)
(* A model of the wrapang crate (src/src/lib.rs): the wrapping angle       *)
(* `Angle(pub Wrapping<u32>)`, its constructors, extractors, operators,    *)
(* rounding and named constants.                                           *)
(*                                                                         *)
(* TLC's integers are 32-bit signed, so a u32 is held as the pair          *)
(* <<hi, lo>> of its 16-bit halves (0x_8000_0000 is <<32768, 0>>), and an  *)
(* f64 as sign, odd integer mantissa (a little-endian sequence of 16-bit   *)
(* limbs) and binary exponent.  All arithmetic below is exact on those     *)
(* representations.                                                        *)
(***************************************************************************)
EXTENDS Integers, Sequences, FiniteSets, TLC

VARIABLES
    self,      \* the receiver Angle: its stored u32
    other,     \* the right-hand Angle operand (rhs / unit)
    hist,      \* the values self held before each in-place update so far
    ops,       \* the in-place operators applied so far, oldest first
    out,       \* the Angle returned by the last value-returning operation
    fout,      \* the f64 returned by the last extraction
    op,        \* the last operation called ("new": none yet)
    ctor,      \* how self was constructed
    arg,       \* the argument the constructor was called with
    k,         \* the scalar of the last Mul<u32> / Div<i32>
    checks,    \* whether the build has overflow checks (debug assertions) on
    panicked   \* whether the last operation panicked (the thread unwinds)

vars == <<self, other, hist, ops, out, fout, op, ctor, arg, k, checks, panicked>>

(***************************************************************************)
(* Bounds of the model.                                                    *)
(***************************************************************************)
MaxOps == 2      \* in-place updates (+=, -=) applied to one Angle
MaxK == 3        \* scalar multipliers are 0..MaxK, divisors -MaxK..MaxK

(***************************************************************************)
(* u32 as <<hi, lo>>.                                                      *)
(***************************************************************************)
H == 256 * 256
HalfH == 128 * 256

U32(hi, lo) == <<hi, lo>>
U32Lt(a, b) == a[1] < b[1] \/ (a[1] = b[1] /\ a[2] < b[2])
U32Le(a, b) == a = b \/ U32Lt(a, b)
U32_MAX == U32(H - 1, H - 1)
ZERO_BITS == U32(0, 0)

\* A value below 2^31 as a TLC integer, and back.
ToInt(a) == a[1] * H + a[2]
OfInt(i) == U32(i \div H, i % H)

\* An addition that saturates at u32::MAX instead of wrapping.
saturating_add(a, b) ==
    LET lo == a[2] + b[2]
        hi == a[1] + b[1] + (lo \div H)
    IN  IF hi >= H THEN U32_MAX ELSE U32(hi, lo % H)

\* Wrapping<u32> + Wrapping<u32>: u32::wrapping_add.
wrapping_add(a, b) ==
    LET lo == a[2] + b[2]
        hi == a[1] + b[1] + (lo \div H)
    IN  U32(hi % H, lo % H)

\* Wrapping<u32> - Wrapping<u32>: u32::wrapping_sub.
wrapping_sub(a, b) ==
    LET lo == a[2] - b[2]
        hi == a[1] - b[1] - (IF lo < 0 THEN 1 ELSE 0)
    IN  U32(hi % H, lo % H)

\* -Wrapping<u32>: u32::wrapping_neg.
wrapping_neg(a) == wrapping_sub(U32(0, 0), a)

\* The 32-bit product of two 16-bit halves, as <<hi, lo>>.
Mul16(x, y) ==
    LET t == (x \div 256) * y
        s == (t % 256) * 256 + (x % 256) * y
    IN  U32((t \div 256) + (s \div H), s % H)

\* The 64-bit product of two u32, as its four 16-bit limbs <<l3, l2, l1, l0>>.
widening_mul(a, b) ==
    LET p0 == Mul16(a[2], b[2])
        p1 == Mul16(a[1], b[2])
        p2 == Mul16(a[2], b[1])
        p3 == Mul16(a[1], b[1])
        c1 == p0[1] + p1[2] + p2[2]
        c2 == (c1 \div H) + p1[1] + p2[1] + p3[2]
    IN  <<(c2 \div H) + p3[1], c2 % H, c1 % H, p0[2]>>

\* Wrapping<u32> * Wrapping<u32>: u32::wrapping_mul.
wrapping_mul(a, b) == LET p == widening_mul(a, b) IN U32(p[3], p[4])

\* a >> 1, which is below 2^31, as a TLC integer.
Shr1(a) == (a[1] \div 2) * H + (a[1] % 2) * HalfH + (a[2] \div 2)

\* u32 / u32 and u32 % u32 for b # 0, as <<quotient, remainder>>.  With
\* a = 2 * (a >> 1) + a0 and (a >> 1) = q1 * b + r1, the quotient is
\* 2 * q1, plus one when 2 * r1 + a0 >= b.
U32DivRem(a, b) ==
    IF b[1] >= HalfH
    THEN IF U32Le(b, a) THEN <<U32(0, 1), wrapping_sub(a, b)>> ELSE <<U32(0, 0), a>>
    ELSE LET bi == ToInt(b)
             a0 == a[2] % 2
             q1 == OfInt(Shr1(a) \div bi)
             r1 == Shr1(a) % bi
             ge == r1 >= bi - r1 - a0
             q2 == wrapping_add(q1, q1)
         IN  IF ge THEN <<wrapping_add(q2, U32(0, 1)), OfInt(r1 - (bi - r1 - a0))>>
                   ELSE <<q2, OfInt(2 * r1 + a0)>>

(***************************************************************************)
(* i32 as the same bit pattern: `x as i32`, `x as u32` are no-ops on the   *)
(* stored pair.                                                            *)
(***************************************************************************)
I32_MIN == U32(HalfH, 0)
IsNegative(a) == a[1] >= HalfH
\* |a| of the i32 with bit pattern a, as a u32 (2^31 for i32::MIN).
Magnitude(a) == IF IsNegative(a) THEN wrapping_neg(a) ELSE a
\* The bit pattern of the i32 with TLC integer value i, -2^31 < i < 2^31.
I32OfInt(i) == IF i < 0 THEN wrapping_neg(OfInt(-i)) ELSE OfInt(i)

\* i32 / i32 of Rust: truncating; it panics for a zero divisor and for
\* i32::MIN / -1 in every build profile.
I32DivPanics(a, b) == b = ZERO_BITS \/ (a = I32_MIN /\ b = U32_MAX)
I32Div(a, b) ==
    LET q == U32DivRem(Magnitude(a), Magnitude(b))[1]
    IN  IF IsNegative(a) # IsNegative(b) THEN wrapping_neg(q) ELSE q

(***************************************************************************)
(* Plain u32 +, -, * of Rust: <<result modulo 2^32, overflowed>>.  With    *)
(* overflow checks compiled in (debug builds) an overflow panics, without  *)
(* them (release builds) the result wraps.                                 *)
(***************************************************************************)
overflowing_add(a, b) ==
    <<wrapping_add(a, b), a[1] + b[1] + ((a[2] + b[2]) \div H) >= H>>
overflowing_sub(a, b) == <<wrapping_sub(a, b), U32Lt(a, b)>>
overflowing_mul(a, b) ==
    LET p == widening_mul(a, b) IN <<U32(p[3], p[4]), p[1] # 0 \/ p[2] # 0>>

(***************************************************************************)
(* Natural numbers of any size, for u64 and f64 mantissas: little-endian   *)
(* sequences of 16-bit limbs without high zero limbs (0 is <<>>).          *)
(***************************************************************************)
RECURSIVE NatNorm(_)
NatNorm(s) ==
    IF s = <<>> THEN <<>>
    ELSE IF s[Len(s)] = 0 THEN NatNorm(SubSeq(s, 1, Len(s) - 1)) ELSE s

Limb(a, i) == IF i <= Len(a) THEN a[i] ELSE 0
MaxOf(x, y) == IF x >= y THEN x ELSE y
NatOfU32(a) == NatNorm(<<a[2], a[1]>>)
NatOne == <<1>>

RECURSIVE NatAddFrom(_, _, _, _)
NatAddFrom(a, b, i, carry) ==
    IF i > MaxOf(Len(a), Len(b))
    THEN (IF carry = 0 THEN <<>> ELSE <<carry>>)
    ELSE LET t == Limb(a, i) + Limb(b, i) + carry
         IN  <<t % H>> \o NatAddFrom(a, b, i + 1, t \div H)
NatAdd(a, b) == NatAddFrom(a, b, 1, 0)

\* a - b for a >= b.
RECURSIVE NatSubFrom(_, _, _, _)
NatSubFrom(a, b, i, borrow) ==
    IF i > Len(a) THEN <<>>
    ELSE LET t == Limb(a, i) - Limb(b, i) - borrow
         IN  <<t % H>> \o NatSubFrom(a, b, i + 1, IF t < 0 THEN 1 ELSE 0)
NatSub(a, b) == NatNorm(NatSubFrom(a, b, 1, 0))

RECURSIVE NatCmpFrom(_, _, _)
NatCmpFrom(a, b, i) ==
    IF i = 0 THEN 0
    ELSE IF a[i] < b[i] THEN 0 - 1
    ELSE IF a[i] > b[i] THEN 1
    ELSE NatCmpFrom(a, b, i - 1)
\* -1, 0 or 1 as a < b, a = b or a > b.
NatCmp(a, b) ==
    IF Len(a) < Len(b) THEN 0 - 1
    ELSE IF Len(a) > Len(b) THEN 1
    ELSE NatCmpFrom(a, b, Len(a))

\* a * m for 0 <= m < 2^15.
RECURSIVE NatMulSmallFrom(_, _, _, _)
NatMulSmallFrom(a, m, i, carry) ==
    IF i > Len(a)
    THEN (IF carry = 0 THEN <<>> ELSE <<carry>>)
    ELSE LET t == a[i] * m + carry
         IN  <<t % H>> \o NatMulSmallFrom(a, m, i + 1, t \div H)
NatMulSmall(a, m) == NatNorm(NatMulSmallFrom(a, m, 1, 0))

\* <<a \div d, a % d>> for 0 < d < 2^15, from the high limb down.
RECURSIVE NatDivSmallFrom(_, _, _, _)
NatDivSmallFrom(a, d, i, r) ==
    IF i = 0 THEN <<<<>>, r>>
    ELSE LET t == r * H + a[i]
             rest == NatDivSmallFrom(a, d, i - 1, t % d)
         IN  <<rest[1] \o <<t \div d>>, rest[2]>>
NatDivModSmall(a, d) ==
    LET qr == NatDivSmallFrom(a, d, Len(a), 0) IN <<NatNorm(qr[1]), qr[2]>>

RECURSIVE Pow2(_)
Pow2(j) == IF j = 0 THEN 1 ELSE 2 * Pow2(j - 1)
RECURSIVE Zeros(_)
Zeros(j) == IF j = 0 THEN <<>> ELSE <<0>> \o Zeros(j - 1)
RECURSIVE BitLength(_)
BitLength(x) == IF x = 0 THEN 0 ELSE 1 + BitLength(x \div 2)

\* The number of bits of a.
NatBitLen(a) == IF a = <<>> THEN 0 ELSE 16 * (Len(a) - 1) + BitLength(a[Len(a)])
\* a * 2^j: by whole limbs, then by at most 14 bits, then by one more.
NatShlBits(a, j) ==
    IF j = 15 THEN NatMulSmall(NatMulSmall(a, Pow2(14)), 2) ELSE NatMulSmall(a, Pow2(j))
NatShl(a, j) == IF a = <<>> THEN <<>> ELSE NatShlBits(Zeros(j \div 16) \o a, j % 16)
\* a \div 2^j
NatShrBits(a, j) ==
    IF j = 15 THEN NatDivModSmall(NatDivModSmall(a, Pow2(14))[1], 2)[1]
    ELSE NatDivModSmall(a, Pow2(j))[1]
NatShr(a, j) ==
    IF j \div 16 >= Len(a) THEN <<>>
    ELSE NatShrBits(SubSeq(a, (j \div 16) + 1, Len(a)), j % 16)
\* a % 2^j
NatLowBits(a, j) == NatSub(a, NatShl(NatShr(a, j), j))
NatIsOdd(a) == a # <<>> /\ a[1] % 2 = 1

\* a * b, a limb of b at a time, each limb as its two bytes.
RECURSIVE NatMulFrom(_, _, _)
NatMulFrom(a, b, i) ==
    IF i > Len(b) THEN <<>>
    ELSE LET byLimb == NatAdd(NatMulSmall(a, b[i] % 256),
                              NatMulSmall(NatMulSmall(a, b[i] \div 256), 256))
         IN  NatAdd(byLimb, <<0>> \o NatMulFrom(a, b, i + 1))
NatMul(a, b) == NatNorm(NatMulFrom(a, b, 1))

RECURSIVE TrailingZeros(_)
TrailingZeros(a) ==
    IF a[1] = 0 THEN 16 + TrailingZeros(SubSeq(a, 2, Len(a)))
    ELSE IF a[1] % 2 = 0 THEN 1 + TrailingZeros(<<a[1] \div 2>>)
    ELSE 0

(***************************************************************************)
(* f64: a finite double as [neg, m, e], the value (-1)^neg * m * 2^e with   *)
(* m odd (zero: m = <<>>, e = 0).  Every operation rounds its exact result *)
(* to 53 significant bits, to nearest, ties to even, as IEEE 754 does; the *)
(* exponents this crate reaches stay far inside the normal range.          *)
(***************************************************************************)
F64Zero == [neg |-> FALSE, m |-> <<>>, e |-> 0]
\* n * 2^e, which has at most 53 significant bits.
F64Exact(neg, n, e) ==
    IF n = <<>> THEN F64Zero
    ELSE LET tz == TrailingZeros(n) IN [neg |-> neg, m |-> NatShr(n, tz), e |-> e + tz]
\* n * 2^e rounded to 53 significant bits.
F64Rounded(neg, n, e) ==
    LET len == NatBitLen(n) IN
    IF len <= 53 THEN F64Exact(neg, n, e)
    ELSE LET drop == len - 53
             q == NatShr(n, drop)
             rest == NatLowBits(n, drop)
             c == NatCmp(rest, NatShl(NatOne, drop - 1))
             up == c > 0 \/ (c = 0 /\ NatIsOdd(q))
         IN  F64Exact(neg, IF up THEN NatAdd(q, NatOne) ELSE q, e + drop)

\* `x as f64` for u32, u64 and i32 values of at most 53 bits: exact.
F64OfNat(n) == F64Exact(FALSE, n, 0)
F64OfU32(a) == F64OfNat(NatOfU32(a))
F64OfI32(a) == F64Exact(IsNegative(a), NatOfU32(Magnitude(a)), 0)
\* A whole number given as a TLC integer.
F64OfInt(i) == F64Exact(i < 0, NatOfU32(OfInt(IF i < 0 THEN 0 - i ELSE i)), 0)

F64Neg(x) == IF x.m = <<>> THEN x ELSE [x EXCEPT !.neg = ~x.neg]
\* -1, 0 or 1 as |x| < |y|, |x| = |y| or |x| > |y|.
F64CmpAbs(x, y) ==
    LET e == IF x.e <= y.e THEN x.e ELSE y.e
    IN  NatCmp(NatShl(x.m, x.e - e), NatShl(y.m, y.e - e))
F64Lt(x, y) ==
    IF x.neg /\ ~y.neg THEN x.m # <<>> \/ y.m # <<>>
    ELSE IF ~x.neg /\ y.neg THEN FALSE
    ELSE IF x.neg THEN F64CmpAbs(x, y) > 0
    ELSE F64CmpAbs(x, y) < 0
F64Le(x, y) == x = y \/ F64Lt(x, y)

\* x + y
F64Add(x, y) ==
    LET e == IF x.e <= y.e THEN x.e ELSE y.e
        a == NatShl(x.m, x.e - e)
        b == NatShl(y.m, y.e - e)
    IN  IF x.neg = y.neg THEN F64Rounded(x.neg, NatAdd(a, b), e)
        ELSE IF NatCmp(a, b) >= 0 THEN F64Rounded(x.neg, NatSub(a, b), e)
        ELSE F64Rounded(y.neg, NatSub(b, a), e)

\* x * y
F64Mul(x, y) == F64Rounded(x.neg # y.neg, NatMul(x.m, y.m), x.e + y.e)

\* x / y for a divisor whose odd mantissa is below 2^15 (this crate divides
\* by 360 = 45 * 2^3 and by a power of two): the quotient to at least 56
\* bits, then a sticky bit for a nonzero remainder, then rounded.
F64Div(x, y) ==
    IF x.m = <<>> THEN F64Zero
    ELSE LET shift == 56 + NatBitLen(y.m) - NatBitLen(x.m)
             qr == NatDivModSmall(NatShl(x.m, shift), y.m[1])
             n == NatAdd(NatMulSmall(qr[1], 2), IF qr[2] = 0 THEN <<>> ELSE NatOne)
         IN  F64Rounded(x.neg # y.neg, n, x.e - y.e - shift - 1)

\* f64::fract: x minus its integer part, with the sign of x.
F64Fract(x) == IF x.e >= 0 THEN F64Zero ELSE F64Exact(x.neg, NatLowBits(x.m, 0 - x.e), x.e)

\* f64::round: to the nearest integer, halfway cases away from zero.
F64Round(x) ==
    IF x.e >= 0 THEN x
    ELSE LET whole == NatShr(x.m, 0 - x.e)
             frac == NatLowBits(x.m, 0 - x.e)
             up == NatCmp(frac, NatShl(NatOne, (0 - x.e) - 1)) >= 0
         IN  F64Exact(x.neg, IF up THEN NatAdd(whole, NatOne) ELSE whole, 0)

\* `x as u64` of an integer-valued x: saturating at 0 and at u64::MAX.
U64_MAX == <<H - 1, H - 1, H - 1, H - 1>>
F64AsU64(x) ==
    IF x.neg \/ x.m = <<>> THEN <<>>
    ELSE IF NatBitLen(x.m) + x.e > 64 THEN U64_MAX
    ELSE NatShl(x.m, x.e)
\* `n as u32` of a u64: the low 32 bits.
U64AsU32(n) == U32(Limb(n, 2), Limb(n, 1))

(***************************************************************************)
(* The named constants.                                                    *)
(***************************************************************************)
Three == U32(0, 3)
ZERO == U32(0, 0)
TWELVTH == U32DivRem(U32(16384, 0), Three)[1]
EIGHTH == U32DivRem(U32(8192, 0), Three)[1]
SIXTH == U32DivRem(U32(32768, 0), Three)[1]
QUARTER == U32(16384, 0)
\* (0x_1_0000_0000u64 / 3u64) as u32
THIRD == U64AsU32(NatDivModSmall(<<0, 0, 1>>, 3)[1])
HALF == U32(32768, 0)
COUN == U32(49152, 0)

Constants ==
    { [name |-> "ZERO", val |-> ZERO], [name |-> "TWELVTH", val |-> TWELVTH],
      [name |-> "EIGHTH", val |-> EIGHTH], [name |-> "SIXTH", val |-> SIXTH],
      [name |-> "QUARTER", val |-> QUARTER], [name |-> "THIRD", val |-> THIRD],
      [name |-> "HALF", val |-> HALF], [name |-> "COUN", val |-> COUN] }

(***************************************************************************)
(* Angle: raw constructor and accessor, operators, round.                  *)
(***************************************************************************)
from_u32(i) == i
as_u32(a) == a

\* The literal 0x1_0000_000u64 of from_unit_unchecked, as_unit and
\* as_signed_unit: seven hexadecimal zeros, 0x1000_0000.
UNIT_SCALE == <<0, 4096>>
F64One == F64OfNat(NatOne)

\* Angle::from_unit_unchecked for a finite unit:
\* (0x1_0000_000u64 as f64 * unit).round() as u64 as u32
from_unit_unchecked(unit) ==
    U64AsU32(F64AsU64(F64Round(F64Mul(F64OfNat(UNIT_SCALE), unit))))

\* Angle::from_unit: [panics, val]; the assert wants 0.0 <= unit <= 1.0.
from_unit(unit) ==
    IF F64Le(F64Zero, unit) /\ F64Le(unit, F64One)
    THEN [panics |-> FALSE, val |-> from_unit_unchecked(unit)]
    ELSE [panics |-> TRUE, val |-> ZERO]

\* Angle::from_degrees: [panics, val].
from_degrees(deg) ==
    LET unit == F64Fract(F64Div(deg, F64OfInt(360)))
    IN  from_unit(IF F64Lt(unit, F64Zero) THEN F64Add(unit, F64One) ELSE unit)

\* Angle::as_unit and Angle::as_signed_unit.
as_unit(a) == F64Div(F64OfU32(as_u32(a)), F64OfNat(UNIT_SCALE))
as_signed_unit(a) == F64Div(F64OfI32(as_u32(a)), F64OfNat(UNIT_SCALE))
\* Angle::as_degrees and Angle::as_signed_degrees.
as_degrees(a) == F64Mul(as_unit(a), F64OfInt(360))
as_signed_degrees(a) == F64Mul(as_signed_unit(a), F64OfInt(360))

\* derive(Add, Sub, Neg, Rem) on Angle(Wrapping<u32>) and the Mul / Div impls.
AngleAdd(a, b) == wrapping_add(a, b)
AngleSub(a, b) == wrapping_sub(a, b)
AngleNeg(a) == wrapping_neg(a)
\* Wrapping<u32> % Wrapping<u32> panics for a zero right-hand side.
AngleRemPanics(a, b) == b = ZERO_BITS
AngleRem(a, b) == U32DivRem(a, b)[2]
AngleMul(a, m) == wrapping_mul(a, m)
\* (self.as_u32() as i32 / other) as u32
AngleDivPanics(a, d) == I32DivPanics(as_u32(a), d)
AngleDiv(a, d) == I32Div(as_u32(a), d)

\* Angle::round: [panics, val].  A zero unit divides by zero; the plain u32
\* arithmetic panics on overflow when chk (overflow checks on), wraps otherwise.
round(a, unit, chk) ==
    IF as_u32(unit) = ZERO_BITS
    THEN [panics |-> TRUE, val |-> ZERO]
    ELSE LET times == U32DivRem(as_u32(a), as_u32(unit))[1]
             min == overflowing_mul(as_u32(unit), times)
             tp1 == overflowing_add(times, U32(0, 1))
             max == overflowing_mul(as_u32(unit), tp1[1])
             up == overflowing_sub(max[1], as_u32(a))
             down == overflowing_sub(as_u32(a), min[1])
             rounded == IF U32Le(up[1], down[1]) THEN max[1] ELSE min[1]
         IN  [panics |-> chk /\ (min[2] \/ tp1[2] \/ max[2] \/ up[2] \/ down[2]),
              val |-> from_u32(rounded)]

(***************************************************************************)
(* Inputs.                                                                 *)
(***************************************************************************)
\* Raw encodings handed to from_u32: the edges of the u32 and i32 ranges,
\* of the halves, and of the sectors of a quarter turn.
U32Samples ==
    { U32(0, 1), U32(0, 2), U32(0, H - 1), U32(1, 0), U32(8192, 0),
      U32(16383, H - 1), U32(24576, 0), U32(HalfH - 1, H - 1), U32(HalfH, 1),
      U32(40960, 0), U32(49152, 1), U32(57344, 0), U32(H - 1, H - 1) }
Sources == Constants \cup { [name |-> "from_u32", val |-> from_u32(i)] : i \in U32Samples }
Operands ==
    { ZERO, QUARTER, THIRD, HALF, COUN, from_u32(U32(0, 1)), from_u32(U32(0, 3)),
      from_u32(U32(H - 1, H - 1)) }
Multipliers == 0 .. MaxK
Divisors == (0 - MaxK) .. MaxK

\* Whole numbers of degrees handed to from_degrees.
Degrees == (0 - 360) .. 720
\* Unit fractions handed to from_unit: 0, 1, 1/4, 1/2, 3/4, 1/3 (nearest
\* double), 1 - 2^-52 (one minus the machine epsilon), 1 - 2^-53 (the double
\* below 1), halves and quarters of an encoding step, and values outside [0, 1].
Units ==
    { F64Zero, F64One, F64Exact(FALSE, NatOne, 0 - 2), F64Exact(FALSE, NatOne, 0 - 1),
      F64Exact(FALSE, <<3>>, 0 - 2), F64Div(F64One, F64OfInt(3)),
      F64Add(F64One, F64Exact(TRUE, NatOne, 0 - 52)),
      F64Add(F64One, F64Exact(TRUE, NatOne, 0 - 53)),
      F64Exact(FALSE, NatOne, 0 - 29), F64Exact(FALSE, <<3>>, 0 - 29),
      F64Exact(FALSE, NatOne, 0 - 30), F64Exact(FALSE, NatOne, 0 - 33),
      F64Exact(FALSE, <<3>>, 0 - 34),
      F64Add(F64One, F64Exact(FALSE, NatOne, 0 - 52)), F64OfInt(2),
      F64Exact(TRUE, NatOne, 0 - 2) }

NoAngle == <<>>
NoFloat == <<>>
NoArg == <<>>

(***************************************************************************)
(* The state machine.                                                      *)
(***************************************************************************)
Init ==
    /\ self = ZERO /\ other = ZERO
    /\ hist = <<>> /\ ops = <<>>
    /\ out = NoAngle /\ fout = NoFloat
    /\ op = "new" /\ ctor = "new" /\ arg = NoArg /\ k = 0
    /\ checks \in BOOLEAN
    /\ panicked = FALSE

\* A call that returns the Angle v, or panics.
Returns(name, v, scalar, panics) ==
    /\ op' = name
    /\ k' = scalar
    /\ panicked' = panics
    /\ out' = IF panics THEN NoAngle ELSE v
    /\ fout' = NoFloat
    /\ UNCHANGED <<self, other, hist, ops, ctor, arg, checks>>

\* An in-place update of self to v.
Assigns(name, v) ==
    /\ Len(ops) < MaxOps
    /\ op' = name
    /\ self' = v
    /\ hist' = Append(hist, self)
    /\ ops' = Append(ops, name)
    /\ out' = NoAngle /\ fout' = NoFloat /\ k' = 0
    /\ UNCHANGED <<other, ctor, arg, checks, panicked>>

Constructed == ctor # "new" /\ ~panicked

\* let self = <constant> | Angle::from_u32(i);
Construct ==
    /\ ctor = "new"
    /\ \E s \in Sources :
          /\ self' = s.val
          /\ ctor' = s.name
          /\ arg' = IF s.name = "from_u32" THEN s.val ELSE NoArg
    /\ op' = "construct"
    /\ UNCHANGED <<other, hist, ops, out, fout, k, checks, panicked>>

\* let other = ...; right after self is constructed.
Operand ==
    /\ op = "construct"
    /\ \E t \in Operands : other' = t
    /\ op' = "operand"
    /\ UNCHANGED <<self, hist, ops, out, fout, ctor, arg, k, checks, panicked>>

\* let self = Angle::from_degrees(d);
FromDegrees ==
    /\ ctor = "new"
    /\ \E d \in Degrees :
          LET r == from_degrees(F64OfInt(d))
          IN  /\ self' = r.val /\ panicked' = r.panics /\ arg' = d
    /\ ctor' = "from_degrees" /\ op' = "construct"
    /\ UNCHANGED <<other, hist, ops, out, fout, k, checks>>

\* let self = Angle::from_unit(u);
FromUnit ==
    /\ ctor = "new"
    /\ \E u \in Units :
          LET r == from_unit(u)
          IN  /\ self' = r.val /\ panicked' = r.panics /\ arg' = u
    /\ ctor' = "from_unit" /\ op' = "construct"
    /\ UNCHANGED <<other, hist, ops, out, fout, k, checks>>

\* A call that returns the f64 f.
ReturnsF64(name, f) ==
    /\ op' = name
    /\ fout' = f
    /\ out' = NoAngle /\ k' = 0
    /\ UNCHANGED <<self, other, hist, ops, ctor, arg, checks, panicked>>

AsUnit == Constructed /\ ReturnsF64("as_unit", as_unit(self))
AsSignedUnit == Constructed /\ ReturnsF64("as_signed_unit", as_signed_unit(self))
AsDegrees == Constructed /\ ReturnsF64("as_degrees", as_degrees(self))
AsSignedDegrees == Constructed /\ ReturnsF64("as_signed_degrees", as_signed_degrees(self))

Add == Constructed /\ Returns("add", AngleAdd(self, other), 0, FALSE)
Sub == Constructed /\ Returns("sub", AngleSub(self, other), 0, FALSE)
AddAssign == Constructed /\ Assigns("add_assign", AngleAdd(self, other))
SubAssign == Constructed /\ Assigns("sub_assign", AngleSub(self, other))
Neg == Constructed /\ Returns("neg", AngleNeg(self), 0, FALSE)
Rem ==
    /\ Constructed
    /\ Returns("rem", AngleRem(self, other), 0, AngleRemPanics(self, other))
Mul ==
    /\ Constructed
    /\ \E m \in Multipliers : Returns("mul", AngleMul(self, OfInt(m)), m, FALSE)
Div ==
    /\ Constructed
    /\ \E d \in Divisors :
          Returns("div", AngleDiv(self, I32OfInt(d)), d, AngleDivPanics(self, I32OfInt(d)))
Round ==
    /\ Constructed
    /\ LET r == round(self, other, checks) IN Returns("round", r.val, 0, r.panics)

Next ==
    \/ Construct \/ Operand
    \/ Add \/ Sub \/ AddAssign \/ SubAssign \/ Neg \/ Rem
    \/ Mul \/ Div \/ Round

Spec == Init /\ [][Next]_vars

\* Construction from floats, extraction, and the scalar division of the result.
NextConv ==
    \/ Construct \/ FromDegrees \/ FromUnit
    \/ AsUnit \/ AsSignedUnit \/ AsDegrees \/ AsSignedDegrees
    \/ Div

SpecConv == Init /\ [][NextConv]_vars

(***************************************************************************)
(* What the claims speak of.                                               *)
(***************************************************************************)
\* v / 2^32 and the signed v / 2^32 as doubles (exact: v has 32 bits).
TurnFraction(a) == F64Exact(FALSE, NatOfU32(a), 0 - 32)
SignedTurnFraction(a) == F64Exact(IsNegative(a), NatOfU32(Magnitude(a)), 0 - 32)
F64Half == F64Exact(FALSE, NatOne, 0 - 1)
\* a and b are at most one encoding step apart on the circle.
WithinOneStep(a, b) ==
    a = b \/ wrapping_add(a, U32(0, 1)) = b \/ wrapping_add(b, U32(0, 1)) = a
\* The multiple of unit nearest to a, the larger one when both are equally
\* near, computed in unbounded integers and reduced modulo 2^32.
NearestMultiple(a, unit) ==
    LET lower == NatMul(NatOfU32(unit), NatOfU32(U32DivRem(a, unit)[1]))
        upper == NatAdd(lower, NatOfU32(unit))
        up == NatSub(upper, NatOfU32(a))
        down == NatSub(NatOfU32(a), lower)
    IN  U64AsU32(IF NatCmp(up, down) <= 0 THEN upper ELSE lower)
\* v is the integer nearest to (num / den) * 2^32: 2 * |den * v - num * 2^32| <= den.
NearestEncoding(v, num, den) ==
    LET x == NatMulSmall(NatOfU32(v), den)
        y == NatShl(NatOfU32(OfInt(num)), 32)
        d == IF NatCmp(x, y) >= 0 THEN NatSub(x, y) ELSE NatSub(y, x)
    IN  NatCmp(NatMulSmall(d, 2), NatOfU32(OfInt(den))) <= 0
\* The encoding of unit divides 2^32: it is a power of two.
DividesFullTurn(unit) ==
    unit # ZERO_BITS /\ NatBitLen(NatOfU32(unit)) = TrailingZeros(NatOfU32(unit)) + 1
LastValue == IF ops = <<>> THEN self ELSE hist[Len(hist)]
ValueAfter(i) == IF i < Len(hist) THEN hist[i + 1] ELSE self

(***************************************************************************)
(* C1.  as_unit() of an Angle with encoding v is exactly v / 2^32, in      *)
(* [0, 1); as_degrees() lies in [0, 360), and is 90 for QUARTER and 180    *)
(* for HALF.                                                               *)
(***************************************************************************)
C1_AsUnitIsTurnFraction ==
    /\ op = "as_unit" =>
          /\ fout = TurnFraction(self)
          /\ F64Le(F64Zero, fout) /\ F64Lt(fout, F64One)
    /\ op = "as_degrees" =>
          /\ F64Le(F64Zero, fout) /\ F64Lt(fout, F64OfInt(360))
          /\ self = QUARTER => fout = F64OfInt(90)
          /\ self = HALF => fout = F64OfInt(180)

(***************************************************************************)
(* C2.  from_degrees(360) = from_degrees(0), and for every whole d in      *)
(* [0, 360), ZERO - from_degrees(d) is within one encoding step of         *)
(* from_degrees(360 - d).                                                  *)
(***************************************************************************)
C2_DegreesWrapAround ==
    (op = "construct" /\ ctor = "from_degrees" /\ ~panicked) =>
        /\ arg = 360 => self = from_degrees(F64OfInt(0)).val
        /\ (0 <= arg /\ arg < 360) =>
              WithinOneStep(AngleSub(ZERO, self), from_degrees(F64OfInt(360 - arg)).val)

(***************************************************************************)
(* C3.  Addition and subtraction are exact inverse wrapping operations     *)
(* with no error path: (a + b) - b = a also across the 2^32 boundary, and  *)
(* the in-place forms store what the value-returning forms return.         *)
(***************************************************************************)
C3_AddSubInverse ==
    /\ op \in {"add", "sub", "add_assign", "sub_assign"} => ~panicked
    /\ op = "add" => AngleSub(out, other) = self
    /\ op = "sub" => AngleAdd(out, other) = self
    /\ \A i \in 1 .. Len(ops) - 1 :
          (ops[i] = "add_assign" /\ ops[i + 1] = "sub_assign") => ValueAfter(i + 1) = hist[i]
    /\ (ops # <<>> /\ ops[Len(ops)] = "add_assign" /\ op = "sub") => out = LastValue
    /\ (ops # <<>> /\ ops[Len(ops)] = "sub_assign" /\ op = "add") => out = LastValue

\* a += b wrapped past 2^32 and a -= b brought the stored integer back.
C3_Witness ==
    /\ Len(ops) >= 2
    /\ ops[1] = "add_assign" /\ ops[2] = "sub_assign"
    /\ U32Lt(hist[2], hist[1])
    /\ ValueAfter(2) = hist[1]

(***************************************************************************)
(* C4.  as_signed_unit() is the encoding read as a two's-complement i32    *)
(* over 2^32: [0, 2^31) maps into [0, 0.5), [2^31, 2^32) into [-0.5, 0);   *)
(* QUARTER.as_signed_degrees() = 90, (QUARTER + HALF).as_signed_degrees()  *)
(* = -90.                                                                  *)
(***************************************************************************)
C4_SignedUnitIsSignedTurnFraction ==
    /\ op = "as_signed_unit" =>
          /\ fout = SignedTurnFraction(self)
          /\ F64Le(F64Neg(F64Half), fout) /\ F64Lt(fout, F64Half)
          /\ IsNegative(self) <=> F64Lt(fout, F64Zero)
    /\ op = "as_signed_degrees" =>
          /\ self = QUARTER => fout = F64OfInt(90)
          /\ self = AngleAdd(QUARTER, HALF) => fout = F64OfInt(0 - 90)

(***************************************************************************)
(* C5.  Each named constant is the integer nearest to its fraction of      *)
(* 2^32: ZERO 0, TWELVTH 1/12, EIGHTH 1/8, SIXTH 1/6, QUARTER 1/4,         *)
(* THIRD 1/3, HALF 1/2, COUN 3/4.                                          *)
(***************************************************************************)
C5_ConstantsAreNearestEncodings ==
    /\ ctor = "ZERO" => self = ZERO_BITS
    /\ ctor = "TWELVTH" => NearestEncoding(self, 1, 12)
    /\ ctor = "EIGHTH" => NearestEncoding(self, 1, 8)
    /\ ctor = "SIXTH" => NearestEncoding(self, 1, 6)
    /\ ctor = "QUARTER" => NearestEncoding(self, 1, 4)
    /\ ctor = "THIRD" => NearestEncoding(self, 1, 3)
    /\ ctor = "HALF" => NearestEncoding(self, 1, 2)
    /\ ctor = "COUN" => NearestEncoding(self, 3, 4)

(***************************************************************************)
(* C6.  Scalar division treats the angle as signed: from_degrees(-90) is   *)
(* from_degrees(270) and halves to from_degrees(-45); for d in [180, 360)  *)
(* and k > 0 with (d - 360) / k a whole, exactly encodable number of       *)
(* degrees (a multiple of 45), from_degrees(d) / k = from_degrees((d -     *)
(* 360) / k).                                                              *)
(***************************************************************************)
C6_DivisionIsSigned ==
    (ctor = "from_degrees" /\ ~panicked) =>
        /\ arg = 0 - 90 => self = from_degrees(F64OfInt(270)).val
        /\ (op = "div" /\ arg \in {0 - 90, 270} /\ k = 2) =>
              out = from_degrees(F64OfInt(0 - 45)).val
        /\ (op = "div" /\ 180 <= arg /\ arg < 360 /\ k > 0
               /\ (arg - 360) % (45 * k) = 0) =>
              out = from_degrees(F64OfInt((arg - 360) \div k)).val

(***************************************************************************)
(* C7.  round(self, unit) returns, for every self and nonzero unit, the    *)
(* multiple of unit nearest to self among unit * floor(self / unit) and    *)
(* the next one, the larger of the two when self is halfway.               *)
(***************************************************************************)
C7_RoundReturnsNearestMultiple ==
    (op = "round" /\ other # ZERO_BITS) =>
        /\ ~panicked
        /\ out = NearestMultiple(self, other)

(***************************************************************************)
(* C8.  The unit-to-integer conversion is round-half-away-from-zero of     *)
(* unit * 2^32 in a wider integer truncated to 32 bits: from_unit(1 -      *)
(* epsilon) and from_unit(1.0) both give encoding 0.                       *)
(***************************************************************************)
C8_FromUnitScalesByFullTurn ==
    (op = "construct" /\ ctor = "from_unit" /\ ~panicked) =>
        /\ self = U64AsU32(F64AsU64(F64Round(F64Mul(arg, F64Exact(FALSE, NatOne, 32)))))
        /\ arg = F64One => self = ZERO
        /\ arg = F64Add(F64One, F64Exact(TRUE, NatOne, 0 - 52)) => self = ZERO

(***************************************************************************)
(* C9.  Angle / i32 wraps on overflow instead of failing: every nonzero    *)
(* divisor gives an Angle, and HALF / -1 is HALF.                          *)
(***************************************************************************)
C9_DivisionWrapsOnOverflow ==
    (op = "div" /\ k # 0) =>
        /\ ~panicked
        /\ (self = HALF /\ k = 0 - 1) => out = HALF

(***************************************************************************)
(* C10.  round(self, unit) never overflows for a unit whose encoding       *)
(* divides 2^32: also for self in the last sector it returns the nearest   *)
(* multiple modulo 2^32, ZERO when that is the full turn.                  *)
(***************************************************************************)
C10_RoundNeverOverflowsForDivisors ==
    (op = "round" /\ DividesFullTurn(other)) =>
        /\ ~panicked
        /\ out = NearestMultiple(self, other)
        /\ U32Lt(wrapping_sub(ZERO, other), self) =>
              out \in {ZERO, wrapping_sub(ZERO, other)}

(***************************************************************************)
(* What the code does where the claims above fail.                         *)
(***************************************************************************)
\* as_unit and as_signed_unit divide by 0x1000_0000 = 2^28.
CodeUnitScale ==
    /\ op = "as_unit" => fout = F64Exact(FALSE, NatOfU32(self), 0 - 28)
    /\ op = "as_signed_unit" =>
          fout = F64Exact(IsNegative(self), NatOfU32(Magnitude(self)), 0 - 28)
    /\ (op = "construct" /\ ctor \in {"from_unit", "from_degrees"} /\ ~panicked) =>
          U32Le(self, U32(4096, 0))
\* Without overflow checks round wraps to the nearest multiple; with them it
\* panics exactly when the upper multiple, or floor(self / unit) + 1, passes 2^32.
CodeRound ==
    (op = "round" /\ other # ZERO_BITS) =>
        /\ ~panicked => out = NearestMultiple(self, other)
        /\ panicked <=>
              /\ checks
              /\ NatBitLen(NatAdd(NatMul(NatOfU32(other), NatOfU32(U32DivRem(self, other)[1])),
                                  NatOfU32(other))) > 32
\* Angle / i32 panics for a zero divisor and for i32::MIN / -1 only.
CodeDiv ==
    op = "div" => (panicked <=> (k = 0 \/ (self = HALF /\ k = 0 - 1)))

=============================================================================
